---- MODULE Spec2Model ----
(***************************************************************************)
(* A model of tools/no-bad-latin.py: the linter that discovers text files, *)
(* strips HTML comments, looks for Latin abbreviations and raises one      *)
(* aggregated error.                                                       *)
(*                                                                         *)
(* A Python str is a sequence of one-character strings.  A path is a       *)
(* record [dir, base]: the directory components and the file name (a str). *)
(* A dict is the sequence of its items in insertion order.                 *)
(***************************************************************************)
EXTENDS Integers, Sequences, FiniteSets, TLC

VARIABLES pc, mode, files, i, fs, text, failing_files, error_message

vars == <<pc, mode, files, i, fs, text, failing_files, error_message>>

(***************************************************************************)
(* Bounds of the model.                                                    *)
(***************************************************************************)
\* longest list the changed-file provider returns
MaxFiles == 3
\* longest file content, in chunks, of the single-file specification
MaxChunks == 4

(***************************************************************************)
(* Strings.                                                                *)
(***************************************************************************)
UpperCase == <<"A","B","C","D","E","F","G","H","I","J","K","L","M",
               "N","O","P","Q","R","S","T","U","V","W","X","Y","Z">>
LowerCase == <<"a","b","c","d","e","f","g","h","i","j","k","l","m",
               "n","o","p","q","r","s","t","u","v","w","x","y","z">>

LowerTable ==
    [c \in {UpperCase[k] : k \in 1..Len(UpperCase)} |->
        LowerCase[CHOOSE k \in 1..Len(UpperCase) : UpperCase[k] = c]]

\* str.lower() on one character
LowerChar(c) == IF c \in DOMAIN LowerTable THEN LowerTable[c] ELSE c

\* str.lower()
lower(s) == [k \in 1..Len(s) |-> LowerChar(s[k])]

\* s[k:k+len(sub)] == sub
StartsAt(s, k, sub) ==
    /\ k >= 1
    /\ k + Len(sub) - 1 <= Len(s)
    /\ \A j \in 1..Len(sub) : s[k + j - 1] = sub[j]

\* sub in s
Contains(s, sub) == \E k \in 1..(Len(s) - Len(sub) + 1) : StartsAt(s, k, sub)

\* s.endswith(suffixes), suffixes a tuple of strings
EndsWithAny(s, suffixes) ==
    \E n \in 1..Len(suffixes) :
        StartsAt(s, Len(s) - Len(suffixes[n]) + 1, suffixes[n])

\* s.split("\n"): the pieces between the newlines, empty ones included
RECURSIVE SplitFrom(_, _, _)
SplitFrom(s, k, cur) ==
    IF k > Len(s) THEN <<cur>>
    ELSE IF s[k] = "\n" THEN <<cur>> \o SplitFrom(s, k + 1, <<>>)
    ELSE SplitFrom(s, k + 1, Append(cur, s[k]))

SplitLines(s) == SplitFrom(s, 1, <<>>)

(***************************************************************************)
(* remove_comments: re.sub("(?s)<!--(.*?)-->", "", text_string).           *)
(* The regex engine tries a match at each position from the left; the lazy *)
(* group with DOTALL ends at the first "-->" that starts at or after the   *)
(* end of "<!--"; a position with no match keeps its character.            *)
(***************************************************************************)
CommentOpen  == <<"<", "!", "-", "-">>
CommentClose == <<"-", "-", ">">>

\* CloseFrom without the (?s) flag: "." stops at a newline
CloseFrom_SameLine(s, k) ==
    {c \in (k + Len(CommentOpen))..Len(s) :
        /\ StartsAt(s, c, CommentClose)
        /\ \A x \in (k + Len(CommentOpen))..(c - 1) : s[x] # "\n"}

\* where the match that starts at k ends: the first close at or after k + 4
CloseFrom(s, k) ==
    {c \in (k + Len(CommentOpen))..Len(s) : StartsAt(s, c, CommentClose)}

Min(S) == CHOOSE x \in S : \A y \in S : x <= y

\* SubFrom taking an opening delimiter with no closing one as a comment
\* that runs to the end of the text
RECURSIVE SubFrom_DropUnterminated(_, _)
SubFrom_DropUnterminated(s, k) ==
    IF k > Len(s) THEN <<>>
    ELSE IF StartsAt(s, k, CommentOpen)
         THEN IF CloseFrom(s, k) # {}
              THEN SubFrom_DropUnterminated(s, Min(CloseFrom(s, k)) + Len(CommentClose))
              ELSE <<>>
         ELSE <<s[k]>> \o SubFrom_DropUnterminated(s, k + 1)

RECURSIVE SubFrom(_, _)
SubFrom(s, k) ==
    IF k > Len(s) THEN <<>>
    ELSE IF StartsAt(s, k, CommentOpen) /\ CloseFrom(s, k) # {}
         THEN SubFrom(s, Min(CloseFrom(s, k)) + Len(CommentClose))
         ELSE <<s[k]>> \o SubFrom(s, k + 1)

\* remove_comments with the greedy "(.*)": a match runs to the last "-->"
RECURSIVE SubFromGreedy(_, _)
SubFromGreedy(s, k) ==
    IF k > Len(s) THEN <<>>
    ELSE IF StartsAt(s, k, CommentOpen) /\ CloseFrom(s, k) # {}
         THEN SubFromGreedy(s, (CHOOSE c \in CloseFrom(s, k) :
                                   \A x \in CloseFrom(s, k) : x <= c) + Len(CommentClose))
         ELSE <<s[k]>> \o SubFromGreedy(s, k + 1)

remove_comments_Greedy(text_string) == SubFromGreedy(text_string, 1)

remove_comments(text_string) == SubFrom(text_string, 1)

(***************************************************************************)
(* get_lines: the lines of text_string that contain sub_string, in order.  *)
(***************************************************************************)
get_lines(text_string, sub_string) ==
    SelectSeq(SplitLines(text_string), LAMBDA line : Contains(line, sub_string))

(***************************************************************************)
(* Module constants and paths.                                             *)
(***************************************************************************)
\* HERE = os.getcwd(): the directory the linter is started in
HERE == <<"/", "repo", "tools">>

\* os.path.dirname of a directory
dirname(d) == SubSeq(d, 1, Len(d) - 1)

ABSOLUTE_HERE == dirname(HERE)

\* file names of the model
CHANGES_md  == <<"C","H","A","N","G","E","S",".","m","d">>
changes_md  == <<"c","h","a","n","g","e","s",".","m","d">>
xCHANGES_md == <<"x","C","H","A","N","G","E","S",".","m","d">>
a_md        == <<"a",".","m","d">>
b_png       == <<"b",".","p","n","g">>

IGNORE_LIST == <<CHANGES_md>>

isabs(p) == p.dir # <<>> /\ p.dir[1] = "/"

\* os.path.join(d, p): an absolute p discards d
join(d, p) == IF isabs(p) THEN p ELSE [dir |-> d \o p.dir, base |-> p.base]

\* os.path.abspath(p): relative to the working directory
abspath(p) == join(HERE, p)

basename(p) == p.base

\* InList comparing without regard to case
InList_IgnoreCase(x, lst) == \E k \in 1..Len(lst) : lower(lst[k]) = lower(x)

\* x in lst, for a list
InList(x, lst) == \E k \in 1..Len(lst) : lst[k] = x

(***************************************************************************)
(* What open() and read() give for a path.                                 *)
(***************************************************************************)
FileNotFound == [kind |-> "FileNotFoundError", data |-> <<>>]
OtherOSError == [kind |-> "OSError", data |-> <<>>]
TextOf(s)    == [kind |-> "text", data |-> s]

\* the try statement with no except clause
Caught_Nothing(c) == FALSE

\* except FileNotFoundError: pass
Caught(c) == c.kind = "FileNotFoundError"

(***************************************************************************)
(* A dict as the sequence of its items: assigning to a key that is present *)
(* replaces its value in place, a new key goes to the end.                 *)
(***************************************************************************)
HasKey(d, k) == \E n \in 1..Len(d) : d[n].key = k

DictGet(d, k) == d[CHOOSE n \in 1..Len(d) : d[n].key = k].value

\* DictSet as an assignment of a new one-item dict
DictSet_Reset(d, k, v) == <<[key |-> k, value |-> v]>>

DictSet(d, k, v) ==
    IF HasKey(d, k)
    THEN [n \in 1..Len(d) |-> IF d[n].key = k THEN [key |-> k, value |-> v] ELSE d[n]]
    ELSE Append(d, [key |-> k, value |-> v])

(***************************************************************************)
(* read_and_check_files, the part applied to the text of one file.         *)
(***************************************************************************)
bad_latin ==
    << <<"i",".","e",".">>,
       <<"i",".","e"," ">>,
       <<" ","i","e"," ">>,
       <<"e",".","g",".">>,
       <<"e",".","g"," ">>,
       <<"e",".","t",".","c",".">>,
       <<" ","e","t","c">>,
       <<"e","t"," ","c","e","t","e","r","a">> >>

\* RecordLines leaving the loop after the first line
RecordLines_FirstLine(d, key, latin_type, lines) ==
    IF lines = <<>> THEN d
    ELSE DictSet(d, key, [latin_type |-> latin_type, line |-> Head(lines)])

\* for line in lines: failing_files[abspath] = {latin_type, line}
RECURSIVE RecordLines(_, _, _, _)
RecordLines(d, key, latin_type, lines) ==
    IF lines = <<>> THEN d
    ELSE RecordLines(DictSet(d, key, [latin_type |-> latin_type, line |-> Head(lines)]),
                     key, latin_type, Tail(lines))

\* CheckPatterns leaving the loop after the first pattern found
RECURSIVE CheckPatterns_FirstFound(_, _, _, _)
CheckPatterns_FirstFound(d, key, txt, n) ==
    IF n > Len(bad_latin) THEN d
    ELSE IF Contains(lower(txt), bad_latin[n])
         THEN RecordLines(d, key, bad_latin[n], get_lines(lower(txt), bad_latin[n]))
         ELSE CheckPatterns_FirstFound(d, key, txt, n + 1)

\* for latin_type in bad_latin: if latin_type in text.lower(): ...
RECURSIVE CheckPatterns(_, _, _, _)
CheckPatterns(d, key, txt, n) ==
    IF n > Len(bad_latin) THEN d
    ELSE LET latin_type == bad_latin[n]
         IN  CheckPatterns(
                 IF Contains(lower(txt), latin_type)
                 THEN RecordLines(d, key, latin_type, get_lines(lower(txt), latin_type))
                 ELSE d,
                 key, txt, n + 1)

CheckText(d, filename, txt) == CheckPatterns(d, abspath(filename), txt, 1)

(***************************************************************************)
(* construct_error_message: the header and one item per key of the dict,   *)
(* joined by "\n".  An item is the tuple of the parts the f-string joins.  *)
(***************************************************************************)
MessageHeader == <<"Bad latin found in the following files:\n">>

MessageItem(item) ==
    <<item.key, ":\t", item.value.latin_type, "\tfound in line\t[",
      item.value.line, "]\n">>

\* "\n".join(parts)
RECURSIVE JoinNewline(_)
JoinNewline(parts) ==
    IF Len(parts) <= 1 THEN parts
    ELSE <<Head(parts), <<"\n">>>> \o JoinNewline(Tail(parts))

\* construct_error_message keeping only the last item
construct_error_message_LastOnly(files_dict) ==
    JoinNewline(<<MessageHeader, MessageItem(files_dict[Len(files_dict)])>>)

construct_error_message(files_dict) ==
    JoinNewline(<<MessageHeader>> \o [n \in 1..Len(files_dict) |-> MessageItem(files_dict[n])])

(***************************************************************************)
(* get_all_files: os.walk yields (rootdir, filenames) per directory; every *)
(* file name not ending in an ignored type is joined to its directory.     *)
(***************************************************************************)
filetypes_to_ignore ==
    << <<".","p","n","g">>, <<".","j","p","g">>, <<".","j","s">>, <<".","c","s","s">> >>

RECURSIVE FilesOfDir(_, _)
FilesOfDir(rootdir, filenames) ==
    IF filenames = <<>> THEN <<>>
    ELSE (IF ~EndsWithAny(Head(filenames), filetypes_to_ignore)
          THEN <<[dir |-> rootdir, base |-> Head(filenames)]>>
          ELSE <<>>) \o FilesOfDir(rootdir, Tail(filenames))

RECURSIVE get_all_files(_)
get_all_files(walk) ==
    IF walk = <<>> THEN <<>>
    ELSE FilesOfDir(Head(walk).rootdir, Head(walk).filenames) \o get_all_files(Tail(walk))

(***************************************************************************)
(* Inputs: the directory tree, the changed-file provider's answers and the *)
(* file contents.                                                          *)
(***************************************************************************)
\* the sequences that list every element of S once
Orders(S) ==
    {o \in [1..Cardinality(S) -> S] : \A a, b \in 1..Cardinality(S) : o[a] = o[b] => a = b}

\* the walked directory: os.path.join(ABSOLUTE_HERE, "src")
SrcDir == ABSOLUTE_HERE \o <<"src">>

\* what os.walk(SrcDir) can yield: src holds any of three files, in any
\* listing order, and a subdirectory docs with or without CHANGES.md
Walks ==
    {<<[rootdir |-> SrcDir, filenames |-> top],
       [rootdir |-> SrcDir \o <<"docs">>, filenames |-> sub]>> :
        top \in UNION {Orders(S) : S \in SUBSET {a_md, b_png, changes_md}},
        sub \in {<<>>, <<CHANGES_md>>}}

\* the names filter_files can return, relative to the repository root
ChangedNames ==
    {[dir |-> <<"src">>, base |-> a_md],
     [dir |-> <<>>, base |-> CHANGES_md],
     [dir |-> <<"src">>, base |-> changes_md],
     [dir |-> <<"src">>, base |-> xCHANGES_md]}

ChangedFileLists == UNION {[1..n -> ChangedNames] : n \in 0..MaxFiles}

\* the pieces file contents are made of
Chunks ==
    {CommentOpen, CommentClose, <<"<", "!">>, <<"I", ".">>, <<"e", ".">>,
     <<"I", ".", "e", ".", "g", ".", "\n">>,
     CommentOpen \o <<"I", ".", "e", ".">> \o CommentClose}

RECURSIVE Flat(_)
Flat(cs) == IF cs = <<>> THEN <<>> ELSE Head(cs) \o Flat(Tail(cs))

\* every text of at most MaxChunks chunks
Texts == {Flat(cs) : cs \in UNION {[1..n -> Chunks] : n \in 0..MaxChunks}}

AllContents == {TextOf(t) : t \in Texts} \cup {FileNotFound, OtherOSError}

\* the contents of the many-file specification
Samples ==
    {Flat(cs) : cs \in
        {<< <<"e", ".">> >>,
         << <<"e", ".", "g", ".">> >>,
         << <<"I", ".">>, <<"e", ".", "g", ".">> >>,
         << CommentOpen, <<"e", ".", "g", ".">>, CommentClose >>,
         << <<"I", ".">>, CommentOpen, CommentClose, <<"e", ".">>, <<"\n">>, <<"e", ".">> >>}}

SampleContents == {TextOf(t) : t \in Samples} \cup {FileNotFound, OtherOSError}

(***************************************************************************)
(* The run.  pc: "main" before the file list is known, "scan" inside the   *)
(* loop of read_and_check_files, "done" when main returns, "raised" when   *)
(* it raises the aggregated error, "crashed" when another error escapes.   *)
(* fs holds what open() gave for every path opened so far; a path keeps    *)
(* its content for the rest of the run.  text is the local of that name.   *)
(***************************************************************************)
Init ==
    /\ pc = "main"
    /\ mode = "unset"
    /\ files = <<>>
    /\ i = 1
    /\ fs = <<>>
    /\ text = <<>>
    /\ failing_files = <<>>
    /\ error_message = <<>>

\* main, lines 144-149: the file list of the selected mode
Discover ==
    /\ pc = "main"
    /\ \/ \E changed \in ChangedFileLists :
            /\ mode' = "pull_request"
            /\ files' = changed
       \/ \E walk \in Walks :
            /\ mode' = "all"
            /\ files' = get_all_files(walk)
    /\ pc' = "scan"
    /\ UNCHANGED <<i, fs, text, failing_files, error_message>>

\* one pass of the loop over files, lines 97-117
ScanFile(contents) ==
    /\ pc = "scan"
    /\ i <= Len(files)
    /\ LET filename == files[i]
           path == join(ABSOLUTE_HERE, filename)
       IN  IF InList(basename(filename), IGNORE_LIST)
           THEN /\ i' = i + 1
                /\ UNCHANGED <<pc, fs, text, failing_files>>
           ELSE \E c \in (IF path \in DOMAIN fs THEN {fs[path]} ELSE contents) :
                  /\ fs' = (path :> c) @@ fs
                  /\ IF c.kind = "text"
                     THEN /\ text' = remove_comments(c.data)
                          /\ failing_files' = CheckText(failing_files, filename, text')
                          /\ i' = i + 1
                          /\ pc' = pc
                     ELSE IF Caught(c)
                     THEN /\ i' = i + 1
                          /\ UNCHANGED <<pc, text, failing_files>>
                     ELSE /\ pc' = "crashed"
                          /\ UNCHANGED <<i, text, failing_files>>
    /\ UNCHANGED <<mode, files, error_message>>

\* the loop is over: read_and_check_files returns, main lines 153-155
Report ==
    /\ pc = "scan"
    /\ i > Len(files)
    /\ IF failing_files # <<>>
       THEN /\ error_message' = construct_error_message(failing_files)
            /\ pc' = "raised"
       ELSE /\ pc' = "done"
            /\ UNCHANGED error_message
    /\ UNCHANGED <<mode, files, i, fs, text, failing_files>>

Next == Discover \/ ScanFile(SampleContents) \/ Report

Spec == Init /\ [][Next]_vars

(***************************************************************************)
(* The single-file run: the provider named one file, whose content is any  *)
(* text of at most MaxChunks chunks.                                       *)
(***************************************************************************)
InitOneFile ==
    /\ pc = "scan"
    /\ mode = "pull_request"
    /\ files = <<[dir |-> <<"src">>, base |-> a_md]>>
    /\ i = 1
    /\ fs = <<>>
    /\ text = <<>>
    /\ failing_files = <<>>
    /\ error_message = <<>>

NextOneFile == ScanFile(AllContents) \/ Report

SpecOneFile == InitOneFile /\ [][NextOneFile]_vars

(***************************************************************************)
(* Vocabulary of the properties.                                           *)
(***************************************************************************)
\* the comment spans of s as <<first, last>> positions: from position k on,
\* the leftmost opening delimiter that has a closing delimiter after it is
\* paired with the nearest such closing delimiter; the search goes on after it
RECURSIVE SpansFrom(_, _)
SpansFrom(s, k) ==
    LET opens == {o \in k..Len(s) :
                    /\ StartsAt(s, o, CommentOpen)
                    /\ \E c \in (o + 4)..Len(s) : StartsAt(s, c, CommentClose)}
    IN  IF opens = {} THEN {}
        ELSE LET o == Min(opens)
                 c == Min({x \in (o + 4)..Len(s) : StartsAt(s, x, CommentClose)})
             IN  {<<o, c + 2>>} \cup SpansFrom(s, c + 3)

Spans(s) == SpansFrom(s, 1)

\* the positions of s that lie in a comment span
SpanPositions(s) == UNION {sp[1]..sp[2] : sp \in Spans(s)}

\* s without the characters of its comment spans
KeptText(s) ==
    LET inside == SpanPositions(s)
        idx == SelectSeq([k \in 1..Len(s) |-> k], LAMBDA k : k \notin inside)
    IN  [n \in 1..Len(idx) |-> s[idx[n]]]

\* the opening delimiters outside every span: none has a closing delimiter
\* after it
Unterminated(s) ==
    LET inside == SpanPositions(s)
    IN  {o \in 1..Len(s) : StartsAt(s, o, CommentOpen) /\ o \notin inside}

\* the patterns s contains, as positions of bad_latin
PatternsIn(s) == {n \in 1..Len(bad_latin) : Contains(s, bad_latin[n])}

Max(S) == CHOOSE x \in S : \A y \in S : x >= y

\* the last line of s that contains sub
LastLineWith(s, sub) ==
    LET lines == SplitLines(s)
    IN  lines[Max({m \in 1..Len(lines) : Contains(lines[m], sub)})]

\* where the case-insensitive occurrences of pat start in s
Occurrences(s, pat) == LET low == lower(s) IN {k \in 1..Len(s) : StartsAt(low, k, pat)}

\* every occurrence of pat in s lies entirely inside one comment span
AllInsideSpans(s, pat) ==
    LET spans == Spans(s)
    IN  \A k \in Occurrences(s, pat) :
            \E sp \in spans : sp[1] <= k /\ k + Len(pat) - 1 <= sp[2]

\* the file at position j of the list
Ignored(j)  == InList(basename(files[j]), IGNORE_LIST)
OpenPath(j) == join(ABSOLUTE_HERE, files[j])
Key(j)      == abspath(files[j])
Passed(j)   == j \in 1..Len(files) /\ j < i
ReadText(j) == /\ ~Ignored(j)
               /\ OpenPath(j) \in DOMAIN fs
               /\ fs[OpenPath(j)].kind = "text"
Raw(j)      == fs[OpenPath(j)].data
Missing(j)  == /\ ~Ignored(j)
               /\ OpenPath(j) \in DOMAIN fs
               /\ fs[OpenPath(j)].kind = "FileNotFoundError"

\* the file's text has a pattern after stripping and lower-casing
Offending(j) == ReadText(j) /\ PatternsIn(lower(remove_comments(Raw(j)))) # {}

Returned == pc \in {"done", "raised"}

\* the single file of SpecOneFile has been read and checked
Checked == Passed(1) /\ ReadText(1)

Recorded(j, pat) ==
    /\ HasKey(failing_files, Key(j))
    /\ DictGet(failing_files, Key(j)).latin_type = pat

(***************************************************************************)
(* C1.  As stated: a text with no pattern in its raw, lower-cased form     *)
(* gets no entry.  Removing a span joins the text on its two sides, and    *)
(* the join can form a pattern.                                            *)
(***************************************************************************)
C1_RawTextClean ==
    (Checked /\ PatternsIn(lower(Raw(1))) = {}) => ~HasKey(failing_files, Key(1))

\* C1, amended: a text with no pattern in what is left of it once its
\* comment spans are removed, lower-cased, gets no entry in the report.
C1_StrippedTextClean ==
    (Checked /\ PatternsIn(lower(KeptText(Raw(1)))) = {}) => failing_files = <<>>

C1_Witness ==
    /\ Checked
    /\ pc = "done"
    /\ Spans(Raw(1)) # {}
    /\ PatternsIn(lower(Raw(1))) # {}
    /\ PatternsIn(lower(KeptText(Raw(1)))) = {}
    /\ failing_files = <<>>

(***************************************************************************)
(* C2.  As stated: every pattern the stripped, lower-cased text contains   *)
(* is held in the file's result.  The result of a file is one dict with    *)
(* one latin_type, which every later pattern overwrites.                   *)
(***************************************************************************)
C2_EveryPatternHeld ==
    Checked => \A n \in PatternsIn(lower(text)) : Recorded(1, bad_latin[n])

\* C2, amended: after scanning a file whose stripped, lower-cased text
\* contains k >= 1 patterns, the report holds exactly one item for the file,
\* with exactly one pattern, the one of those k that is last in the pattern
\* order, and one line, which contains that pattern.
C2_OnePatternHeld ==
    (Checked /\ PatternsIn(lower(text)) # {}) =>
        /\ Cardinality({m \in 1..Len(failing_files) : failing_files[m].key = Key(1)}) = 1
        /\ Recorded(1, bad_latin[Max(PatternsIn(lower(text)))])
        /\ Contains(DictGet(failing_files, Key(1)).line,
                    DictGet(failing_files, Key(1)).latin_type)

C2_Witness ==
    /\ Checked
    /\ Cardinality(PatternsIn(lower(text))) >= 2
    /\ HasKey(failing_files, Key(1))

(***************************************************************************)
(* C3.  remove_comments is idempotent: stripping the stripped text changes *)
(* nothing.                                                                *)
(***************************************************************************)
C3_Idempotent ==
    Checked => remove_comments(remove_comments(Raw(1))) = remove_comments(Raw(1))

(***************************************************************************)
(* C4.  As stated: a pattern whose occurrences in the text all lie inside  *)
(* comment spans is not recorded for the file.                             *)
(***************************************************************************)
C4_AllInsideNotRecorded ==
    \A n \in 1..Len(bad_latin) :
        (/\ Checked
         /\ Occurrences(Raw(1), bad_latin[n]) # {}
         /\ AllInsideSpans(Raw(1), bad_latin[n]))
        => ~Recorded(1, bad_latin[n])

\* C4, amended: a pattern whose occurrences in the text all lie inside
\* comment spans, and which the text joined across the removed spans does
\* not form, is not recorded for the file.
C4_InsideAndNotJoined ==
    \A n \in 1..Len(bad_latin) :
        (/\ Checked
         /\ Occurrences(Raw(1), bad_latin[n]) # {}
         /\ AllInsideSpans(Raw(1), bad_latin[n])
         /\ ~Contains(lower(KeptText(Raw(1))), bad_latin[n]))
        => ~Recorded(1, bad_latin[n])

C4_Witness ==
    /\ Checked
    /\ \E n \in 1..Len(bad_latin) :
         /\ Occurrences(Raw(1), bad_latin[n]) # {}
         /\ AllInsideSpans(Raw(1), bad_latin[n])
         /\ ~Contains(lower(KeptText(Raw(1))), bad_latin[n])
    /\ KeptText(Raw(1)) # <<>>
    /\ failing_files = <<>>

(***************************************************************************)
(* C9.  Every terminated span is removed and nothing else is: the stripped *)
(* text is the text without its spans, and from the first opening          *)
(* delimiter that no closing delimiter follows, the text is returned       *)
(* unchanged to its end.                                                   *)
(***************************************************************************)
C9_UnterminatedKept ==
    Checked =>
        /\ text = KeptText(Raw(1))
        /\ Unterminated(Raw(1)) # {} =>
             LET u == Min(Unterminated(Raw(1)))
                 n == Len(Raw(1)) - u + 1
             IN  /\ Len(text) >= n
                 /\ SubSeq(text, Len(text) - n + 1, Len(text)) = SubSeq(Raw(1), u, Len(Raw(1)))

C9_Witness ==
    /\ Checked
    /\ Unterminated(Raw(1)) # {}
    /\ \E sp \in Spans(Raw(1)) :
         /\ sp[2] < Min(Unterminated(Raw(1)))
         /\ \E k \in sp[1]..sp[2] : Raw(1)[k] = "\n"
    /\ Len(text) < Len(Raw(1))

(***************************************************************************)
(* C10.  A file is in the report exactly when its stripped, lower-cased    *)
(* text contains a pattern; its item names the last such pattern of the    *)
(* pattern order and the last line of the text that contains it.           *)
(***************************************************************************)
C10_LastPatternLastLine ==
    Checked =>
        /\ HasKey(failing_files, Key(1)) <=> PatternsIn(lower(text)) # {}
        /\ \A m \in 1..Len(failing_files) :
             LET pat == bad_latin[Max(PatternsIn(lower(text)))]
             IN  /\ failing_files[m].key = Key(1)
                 /\ failing_files[m].value.latin_type = pat
                 /\ failing_files[m].value.line = LastLineWith(lower(text), pat)
                 /\ Contains(failing_files[m].value.line, failing_files[m].value.latin_type)

C10_Witness ==
    /\ Checked
    /\ pc = "raised"
    /\ Cardinality(PatternsIn(lower(text))) >= 2
    /\ LET pat == bad_latin[Max(PatternsIn(lower(text)))]
       IN  /\ Len(get_lines(lower(text), pat)) >= 2
           /\ get_lines(lower(text), pat)[1] # LastLineWith(lower(text), pat)

(***************************************************************************)
(* C5.  When read_and_check_files has returned, the report holds an item   *)
(* for every listed file that is not ignored, was read and has a pattern   *)
(* in its stripped, lower-cased text, wherever it stands in the list, and  *)
(* an item for no other file.                                              *)
(***************************************************************************)
C5_AllViolationsCollected ==
    Returned =>
        /\ \A j \in 1..Len(files) : Offending(j) => HasKey(failing_files, Key(j))
        /\ \A m \in 1..Len(failing_files) :
             \E j \in 1..Len(files) : Offending(j) /\ Key(j) = failing_files[m].key

C5_Witness ==
    /\ pc = "raised"
    /\ Len(files) = 3
    /\ Offending(1)
    /\ ReadText(2) /\ ~Offending(2)
    /\ Offending(3)
    /\ Len(failing_files) = 2

(***************************************************************************)
(* C6.  The pass of the loop over a file that does not exist raises no     *)
(* error, leaves the report as it is and moves on to the next file.        *)
(***************************************************************************)
MissingPass ==
    /\ pc = "scan"
    /\ i <= Len(files)
    /\ ~Ignored(i)
    /\ OpenPath(i) \in DOMAIN fs'
    /\ fs'[OpenPath(i)].kind = "FileNotFoundError"

C6_MissingFileIsNoMatch ==
    [][MissingPass =>
          /\ pc' = "scan"
          /\ i' = i + 1
          /\ failing_files' = failing_files
          /\ error_message' = error_message]_vars

C6_Witness ==
    /\ Returned
    /\ Len(files) = 3
    /\ Offending(1)
    /\ Missing(2)
    /\ Offending(3)
    /\ Len(failing_files) = 2
    /\ ~HasKey(failing_files, Key(2))

(***************************************************************************)
(* C7.  In either mode a file whose basename equals an entry of the ignore *)
(* list is never opened and never in the report; a file whose basename     *)
(* only contains an entry, or differs from it in case, is opened when the  *)
(* loop passes it.                                                         *)
(***************************************************************************)
NearMiss(j) == basename(files[j]) \in {changes_md, xCHANGES_md}

C7_IgnoreListExact ==
    \A j \in 1..Len(files) :
        /\ basename(files[j]) = CHANGES_md =>
             /\ OpenPath(j) \notin DOMAIN fs
             /\ ~HasKey(failing_files, Key(j))
        /\ (NearMiss(j) /\ Passed(j)) =>
             /\ OpenPath(j) \in DOMAIN fs
             /\ HasKey(failing_files, Key(j)) <=> Offending(j)

C7_Witness ==
    /\ mode = "all"
    /\ Returned
    /\ \E j \in 1..Len(files) : basename(files[j]) = CHANGES_md
    /\ \E j \in 1..Len(files) : NearMiss(j) /\ Offending(j) /\ HasKey(failing_files, Key(j))

(***************************************************************************)
(* C8.  main raises exactly when the report is not empty.  The message is  *)
(* the header and one item per file of the report, in the order the files  *)
(* entered the report, which is the order of their first offending place   *)
(* in the list; with an empty report main returns and there is no message. *)
(***************************************************************************)
FirstPlace(key) == Min({j \in 1..Len(files) : Key(j) = key})

C8_FailsIffReportNonEmpty ==
    /\ pc = "raised" =>
         /\ failing_files # <<>>
         /\ Len(error_message) = 2 * Len(failing_files) + 1
         /\ error_message[1] = MessageHeader
         /\ \A m \in 1..Len(failing_files) :
              /\ error_message[2 * m] = <<"\n">>
              /\ Len(error_message[2 * m + 1]) = 6
              /\ error_message[2 * m + 1][1] = failing_files[m].key
              /\ error_message[2 * m + 1][3] = failing_files[m].value.latin_type
              /\ error_message[2 * m + 1][5] = failing_files[m].value.line
         /\ \A a, b \in 1..Len(failing_files) :
              a < b => FirstPlace(failing_files[a].key) < FirstPlace(failing_files[b].key)
    /\ pc = "done" => (failing_files = <<>> /\ error_message = <<>>)
    /\ (pc = "scan" /\ i > Len(files)) =>
         (ENABLED Report /\ error_message = <<>>)

C8_Witness ==
    /\ pc = "raised"
    /\ Len(failing_files) = 2
    /\ Len(error_message) = 5

====
